---- MODULE Spec2Model ----
(***************************************************************************)
(* Model of the SPADS Python plugin templates and tutorials:               *)
(*   plugins/templates/commented/mynewcommandplugin.py  (MyNewCommandPlugin)*)
(*   plugins/tutorials/timeplugin.py                    (TimePlugin)       *)
(*   plugins/tutorials/forbiddenwords.py                (ForbiddenWords)   *)
(* The plugins are callbacks driven by the SPADS host.  The host side (the *)
(* lobby connection state, the two handler registries, the dropping of     *)
(* lobby handlers on disconnect) is not part of these files and is modelled*)
(* from the plugin API as the plugins' comments describe it.               *)
(*                                                                         *)
(* A text is a sequence of one-character strings (fixed fragments of a     *)
(* format string are kept as one element).  A string received from Perl is *)
(* a record [enc, chars]: Inline::Python may hand it over as a byte string *)
(* (enc = "bytes") or as a native string (enc = "str").                    *)
(***************************************************************************)
EXTENDS Integers, Sequences, FiniteSets

VARIABLES
    lobbyState,            \* host: value returned by getLobbyState()
    loaded,                \* host: set of plugins currently loaded
    spadsCommandHandlers,  \* host: registry of SPADS command handlers
    lobbyCommandHandlers,  \* host: registry of lobby command handlers
    cycles,                \* host: number of lobby disconnections so far
    preDisconnect,         \* lobbyCommandHandlers just before the last disconnection
    call,                  \* the last callback the host invoked, with its arguments
    trace,                 \* what that callback did, in order
    ret,                   \* what that callback returned
    params,                \* the params list object handed to that callback, after it
    conf,                  \* host: the configuration views and the users' access levels
    inbox                  \* host: lobby commands received and not yet dispatched

vars == <<lobbyState, loaded, spadsCommandHandlers, lobbyCommandHandlers,
          cycles, preDisconnect, call, trace, ret, params, conf, inbox>>

(***************************************************************************)
(* Bounds of the model.                                                    *)
(***************************************************************************)
MaxCycles == 2
MaxMsgLen == 3
MaxParams == 2

(***************************************************************************)
(* Host constants.                                                         *)
(***************************************************************************)
LOBBY_STATE_DISCONNECTED == 0
LOBBY_STATE_LOGGED_IN == 3
LOBBY_STATE_SYNCHRONIZED == 4
LOBBY_STATE_BATTLE_OPENED == 6
NoticeLevel == 3

Plugins == {"MyNewCommandPlugin", "TimePlugin", "ForbiddenWords"}

pluginVersion == <<"0", ".", "1">>

None == "None"

(***************************************************************************)
(* Python and Perl-bridge primitives.                                      *)
(***************************************************************************)
Str(chars) == [enc |-> "str", chars |-> chars]
Bytes(chars) == [enc |-> "bytes", chars |-> chars]

\* spads.fix_string: a byte string is decoded, a native string is kept.
fix_string(s) == [enc |-> "str", chars |-> s.chars]

\* Python ==: a bytes object never equals a str object.
PyEq(a, b) == a.enc = b.enc /\ a.chars = b.chars

Ev(fn, args) == [fn |-> fn, args |-> args]

slog(text, level) == Ev("slog", <<text, level>>)

Fns(t) == {t[i].fn : i \in 1..Len(t)}

\* Registries hold entries [owner, command, handler].
Entry(owner, command, handler) ==
    [owner |-> owner, command |-> command, handler |-> handler]

\* addSpadsCommandHandler / addLobbyCommandHandler: install handlers, replacing
\* the caller's previous handler for the same command.
AddHandlers(registry, owner, handlers) ==
    {e \in registry : ~(e.owner = owner /\ e.command \in {h[1] : h \in handlers})}
        \cup {Entry(owner, h[1], h[2]) : h \in handlers}

\* removeSpadsCommandHandler / removeLobbyCommandHandler: remove the caller's
\* handlers for the named commands (nothing happens for an absent one).
RemoveHandlers(registry, owner, commands) ==
    {e \in registry : ~(e.owner = owner /\ e.command \in commands)}

OwnedBy(registry, owner) ==
    {<<e.command, e.handler>> : e \in {x \in registry : x.owner = owner}}

(***************************************************************************)
(* Constructors and onUnload / onLobbySynchronized callbacks.              *)
(***************************************************************************)
LoadedText == <<"Plugin loaded (version ">> \o pluginVersion \o <<")">>
UnloadedText == <<"Plugin unloaded">>

MyNewCommandPlugin_init ==
    /\ spadsCommandHandlers' = AddHandlers(spadsCommandHandlers, "MyNewCommandPlugin",
                                           {<<"myCommand", "hMyCommand">>})
    /\ trace' = <<Ev("addSpadsCommandHandler", <<{<<"myCommand", "hMyCommand">>}>>),
                  slog(LoadedText, NoticeLevel)>>
    /\ UNCHANGED lobbyCommandHandlers

MyNewCommandPlugin_onUnload ==
    /\ spadsCommandHandlers' = RemoveHandlers(spadsCommandHandlers, "MyNewCommandPlugin",
                                              {"myCommand"})
    /\ trace' = <<Ev("removeSpadsCommandHandler", <<{"myCommand"}>>),
                  slog(UnloadedText, NoticeLevel)>>
    /\ UNCHANGED lobbyCommandHandlers

TimePlugin_init ==
    /\ spadsCommandHandlers' = AddHandlers(spadsCommandHandlers, "TimePlugin",
                                           {<<"time", "hSpadsTime">>})
    /\ trace' = <<Ev("addSpadsCommandHandler", <<{<<"time", "hSpadsTime">>}>>),
                  slog(LoadedText, NoticeLevel)>>
    /\ UNCHANGED lobbyCommandHandlers

TimePlugin_onUnload ==
    /\ spadsCommandHandlers' = RemoveHandlers(spadsCommandHandlers, "TimePlugin", {"time"})
    /\ trace' = <<Ev("removeSpadsCommandHandler", <<{"time"}>>),
                  slog(UnloadedText, NoticeLevel)>>
    /\ UNCHANGED lobbyCommandHandlers

SaidBattleHandler == {<<"SAIDBATTLE", "hLobbySaidBattle">>}

\* Mutant: the constructor registers the handler without asking for the lobby state.
ForbiddenWords_init_Unguarded ==
    /\ lobbyCommandHandlers' =
          AddHandlers(lobbyCommandHandlers, "ForbiddenWords", SaidBattleHandler)
    /\ trace' = <<slog(LoadedText, NoticeLevel), Ev("getLobbyState", <<>>),
                  Ev("addLobbyCommandHandler", <<SaidBattleHandler>>)>>
    /\ UNCHANGED spadsCommandHandlers

ForbiddenWords_init ==
    /\ lobbyCommandHandlers' =
          IF lobbyState >= LOBBY_STATE_SYNCHRONIZED
          THEN AddHandlers(lobbyCommandHandlers, "ForbiddenWords", SaidBattleHandler)
          ELSE lobbyCommandHandlers
    /\ trace' = <<slog(LoadedText, NoticeLevel), Ev("getLobbyState", <<>>)>>
                \o (IF lobbyState >= LOBBY_STATE_SYNCHRONIZED
                    THEN <<Ev("addLobbyCommandHandler", <<SaidBattleHandler>>)>>
                    ELSE <<>>)
    /\ UNCHANGED spadsCommandHandlers

\* Mutant: the handler is not added again after a reconnection.
ForbiddenWords_onLobbySynchronized_Forgets ==
    /\ trace' = <<>>
    /\ UNCHANGED <<spadsCommandHandlers, lobbyCommandHandlers>>

ForbiddenWords_onLobbySynchronized ==
    /\ lobbyCommandHandlers' =
          AddHandlers(lobbyCommandHandlers, "ForbiddenWords", SaidBattleHandler)
    /\ trace' = <<Ev("addLobbyCommandHandler", <<SaidBattleHandler>>)>>
    /\ UNCHANGED spadsCommandHandlers

\* Mutant: onUnload only logs and leaves the handler in place.
ForbiddenWords_onUnload_NoRemove ==
    /\ trace' = <<Ev("getLobbyState", <<>>), slog(UnloadedText, NoticeLevel)>>
    /\ UNCHANGED <<spadsCommandHandlers, lobbyCommandHandlers>>

\* Mutant: onUnload removes the handler without asking for the lobby state.
ForbiddenWords_onUnload_Always ==
    /\ lobbyCommandHandlers' =
          RemoveHandlers(lobbyCommandHandlers, "ForbiddenWords", {"SAIDBATTLE"})
    /\ trace' = <<Ev("removeLobbyCommandHandler", <<{"SAIDBATTLE"}>>),
                  slog(UnloadedText, NoticeLevel)>>
    /\ UNCHANGED spadsCommandHandlers

ForbiddenWords_onUnload ==
    /\ lobbyCommandHandlers' =
          IF lobbyState >= LOBBY_STATE_SYNCHRONIZED
          THEN RemoveHandlers(lobbyCommandHandlers, "ForbiddenWords", {"SAIDBATTLE"})
          ELSE lobbyCommandHandlers
    /\ trace' = <<Ev("getLobbyState", <<>>)>>
                \o (IF lobbyState >= LOBBY_STATE_SYNCHRONIZED
                    THEN <<Ev("removeLobbyCommandHandler", <<{"SAIDBATTLE"}>>)>>
                    ELSE <<>>)
                \o <<slog(UnloadedText, NoticeLevel)>>
    /\ UNCHANGED spadsCommandHandlers

Constructor(p) ==
    CASE p = "MyNewCommandPlugin" -> MyNewCommandPlugin_init
      [] p = "TimePlugin" -> TimePlugin_init
      [] p = "ForbiddenWords" -> ForbiddenWords_init

OnUnload(p) ==
    CASE p = "MyNewCommandPlugin" -> MyNewCommandPlugin_onUnload
      [] p = "TimePlugin" -> TimePlugin_onUnload
      [] p = "ForbiddenWords" -> ForbiddenWords_onUnload

Callback(op, plugin, args) == [op |-> op, plugin |-> plugin, args |-> args]

(***************************************************************************)
(* Host events of the plugin lifecycle.                                    *)
(***************************************************************************)
\* The host loads a plugin: it constructs the plugin object.
Load(p) ==
    /\ p \notin loaded
    /\ loaded' = loaded \cup {p}
    /\ call' = Callback("__init__", p, <<>>)
    /\ Constructor(p)
    /\ ret' = None
    /\ UNCHANGED <<lobbyState, cycles, preDisconnect, params, conf, inbox>>

\* The host unloads a plugin: it calls onUnload and drops the plugin object.
Unload(p) ==
    /\ p \in loaded
    /\ loaded' = loaded \ {p}
    /\ call' = Callback("onUnload", p, <<>>)
    /\ OnUnload(p)
    /\ ret' = None
    /\ UNCHANGED <<lobbyState, cycles, preDisconnect, params, conf, inbox>>

\* The lobby connection progresses (connecting, connected, logged in), or a
\* battle is being opened once synchronized: no plugin callback of these files.
HostProgress ==
    /\ lobbyState < LOBBY_STATE_BATTLE_OPENED
    /\ lobbyState + 1 # LOBBY_STATE_SYNCHRONIZED
    /\ lobbyState' = lobbyState + 1
    /\ call' = Callback("none", "host", <<>>)
    /\ trace' = <<>>
    /\ ret' = None
    /\ UNCHANGED <<loaded, spadsCommandHandlers, lobbyCommandHandlers, cycles,
                   preDisconnect, params, conf, inbox>>

\* The battle is closed: back to the synchronized state.
HostCloseBattle ==
    /\ lobbyState > LOBBY_STATE_SYNCHRONIZED
    /\ lobbyState' = LOBBY_STATE_SYNCHRONIZED
    /\ call' = Callback("none", "host", <<>>)
    /\ trace' = <<>>
    /\ ret' = None
    /\ UNCHANGED <<loaded, spadsCommandHandlers, lobbyCommandHandlers, cycles,
                   preDisconnect, params, conf, inbox>>

\* The initial lobby synchronization ends: the state becomes synchronized and
\* the host calls onLobbySynchronized on the loaded plugins that define it.
HostSynchronized ==
    /\ lobbyState = LOBBY_STATE_LOGGED_IN
    /\ lobbyState' = LOBBY_STATE_SYNCHRONIZED
    /\ IF "ForbiddenWords" \in loaded
       THEN /\ call' = Callback("onLobbySynchronized", "ForbiddenWords", <<>>)
            /\ ForbiddenWords_onLobbySynchronized
       ELSE /\ call' = Callback("none", "host", <<>>)
            /\ trace' = <<>>
            /\ UNCHANGED <<spadsCommandHandlers, lobbyCommandHandlers>>
    /\ ret' = None
    /\ UNCHANGED <<loaded, cycles, preDisconnect, params, conf, inbox>>

\* The lobby connection is lost or closed: all lobby command handlers are
\* removed by the host.
HostDisconnect ==
    /\ lobbyState > LOBBY_STATE_DISCONNECTED
    /\ cycles < MaxCycles
    /\ lobbyState' = LOBBY_STATE_DISCONNECTED
    /\ preDisconnect' = lobbyCommandHandlers
    /\ lobbyCommandHandlers' = {}
    /\ cycles' = cycles + 1
    /\ call' = Callback("none", "host", <<>>)
    /\ trace' = <<>>
    /\ ret' = None
    /\ UNCHANGED <<loaded, spadsCommandHandlers, params, conf, inbox>>

HostLogin == <<"s", "p", "a", "d", "s">>
Bob == <<"b", "o", "b">>
UserNames == {HostLogin, Bob}

\* The configuration the host starts with: the plugin's settings of its
\* configuration file and the autohost's lobby account.
DefaultConf ==
    [lobbyLogin |-> Str(HostLogin),
     words |-> Str(<<"f", "o", "o", ";", "b", "a", "r">>),
     immuneLevel |-> Str(<<"1", "0">>),
     accessLevel |-> [u \in UserNames |-> Str(<<"0">>)]]

Init ==
    /\ lobbyState = LOBBY_STATE_DISCONNECTED
    /\ loaded = {}
    /\ spadsCommandHandlers = {}
    /\ lobbyCommandHandlers = {}
    /\ cycles = 0
    /\ preDisconnect = {}
    /\ call = Callback("none", "host", <<>>)
    /\ trace = <<>>
    /\ ret = None
    /\ params = <<>>
    /\ conf = DefaultConf
    /\ inbox = <<>>

Next ==
    \/ \E p \in Plugins : Load(p)
    \/ \E p \in Plugins : Unload(p)
    \/ HostProgress
    \/ HostSynchronized
    \/ HostCloseBattle
    \/ HostDisconnect

Spec == Init /\ [][Next]_vars

(***************************************************************************)
(* Lifecycle properties (checked under Spec).                              *)
(***************************************************************************)
Registered(p) ==
    OwnedBy(spadsCommandHandlers, p) \cup OwnedBy(lobbyCommandHandlers, p)

Synchronized == lobbyState >= LOBBY_STATE_SYNCHRONIZED

\* C1: a plugin that is not loaded (never loaded, or unloaded by onUnload after
\* any sequence of loads, disconnections and reconnections) has no handler left
\* in the host's command-handler registry nor in its lobby-handler registry.
C1_UnloadLeavesNoHandler ==
    \A p \in Plugins : p \notin loaded => Registered(p) = {}

\* C1 witness: ForbiddenWords has just been unloaded while synchronized, after a
\* reconnection, and onUnload has removed its handler.
C1_Witness ==
    /\ call.op = "onUnload"
    /\ call.plugin = "ForbiddenWords"
    /\ cycles >= 1
    /\ "removeLobbyCommandHandler" \in Fns(trace)
    /\ Registered("ForbiddenWords") = {}

\* C5: after a disconnection and the onLobbySynchronized call of the following
\* reconnection, the lobby handlers of ForbiddenWords are exactly the mapping
\* SAIDBATTLE -> hLobbySaidBattle, which is the set it had registered just before
\* that disconnection whenever it had one registered, in every cycle.
C5_ReconnectRestoresHandlers ==
    call.op = "onLobbySynchronized" =>
        /\ OwnedBy(lobbyCommandHandlers, "ForbiddenWords") = SaidBattleHandler
        /\ OwnedBy(preDisconnect, "ForbiddenWords") # {} =>
              OwnedBy(lobbyCommandHandlers, "ForbiddenWords")
                  = OwnedBy(preDisconnect, "ForbiddenWords")

\* C5 witness: the last allowed disconnection dropped the registered handler and
\* onLobbySynchronized has just run for the reconnection.
C5_Witness ==
    /\ call.op = "onLobbySynchronized"
    /\ cycles = MaxCycles
    /\ OwnedBy(preDisconnect, "ForbiddenWords") = SaidBattleHandler
    /\ OwnedBy(lobbyCommandHandlers, "ForbiddenWords") = SaidBattleHandler

\* C6 as stated: ForbiddenWords.onUnload attempts the removal of the SAIDBATTLE
\* handler in every connection state.
C6_Original ==
    (call.op = "onUnload" /\ call.plugin = "ForbiddenWords") =>
        "removeLobbyCommandHandler" \in Fns(trace)

\* C6 amended: ForbiddenWords.onUnload calls removeLobbyCommandHandler exactly
\* when the lobby state is synchronized or beyond; when it is not, no removal
\* is attempted, and in both cases no handler of the plugin is left registered.
C6_Amended ==
    (call.op = "onUnload" /\ call.plugin = "ForbiddenWords") =>
        /\ "removeLobbyCommandHandler" \in Fns(trace) <=> Synchronized
        /\ OwnedBy(lobbyCommandHandlers, "ForbiddenWords") = {}

\* C6 witness: an unload between a disconnection and the next synchronization,
\* of a plugin whose handler that disconnection dropped.
C6_Witness ==
    /\ call.op = "onUnload"
    /\ call.plugin = "ForbiddenWords"
    /\ ~Synchronized
    /\ OwnedBy(preDisconnect, "ForbiddenWords") = SaidBattleHandler
    /\ "removeLobbyCommandHandler" \notin Fns(trace)

\* C9: between host callbacks, the SAIDBATTLE handler of ForbiddenWords is
\* registered if and only if the plugin is loaded and the lobby state is
\* synchronized or beyond.
C9_HandlerIffLoadedAndSynchronized ==
    (Entry("ForbiddenWords", "SAIDBATTLE", "hLobbySaidBattle") \in lobbyCommandHandlers)
        <=> ("ForbiddenWords" \in loaded /\ Synchronized)

\* C9 witness: the constructor has just run while the host was not synchronized
\* and has registered nothing.
C9_Witness ==
    /\ call.op = "__init__"
    /\ call.plugin = "ForbiddenWords"
    /\ ~Synchronized
    /\ "addLobbyCommandHandler" \notin Fns(trace)
    /\ lobbyCommandHandlers = {}

(***************************************************************************)
(* Command handlers of MyNewCommandPlugin and TimePlugin.                  *)
(***************************************************************************)
RECURSIVE Join(_, _)
\* Python sep.join(list) on the characters of the list's strings.
Join(strings, sep) ==
    IF strings = <<>> THEN <<>>
    ELSE IF Len(strings) = 1 THEN strings[1].chars
    ELSE strings[1].chars \o sep \o Join(Tail(strings), sep)

\* The message of line 82: "User %s called command myCommand with parameter(s) \"%s\"".
MyCommandText(user, paramsString) ==
    <<"User ">> \o user.chars \o <<" called command myCommand with parameter(s) \"">>
        \o paramsString \o <<"\"">>

\* Mutant: the strings are fixed before checkOnly is tested.
hMyCommand_FixFirst(source, user, ps, checkOnly) ==
    LET fixed == [i \in 1..Len(ps) |-> fix_string(ps[i])]
        fixes == <<Ev("fix_string", <<user>>)>>
                     \o [i \in 1..Len(ps) |-> Ev("fix_string", <<ps[i]>>)]
    IN  IF checkOnly
        THEN [ret |-> 1, trace |-> fixes, params |-> fixed]
        ELSE [ret |-> None,
              trace |-> fixes \o <<slog(MyCommandText(fix_string(user),
                                                      Join(fixed, <<",">>)), NoticeLevel)>>,
              params |-> fixed]

\* Mutant: the parameters are joined with a space instead of a comma.
hMyCommand_SpaceJoin(source, user, ps, checkOnly) ==
    LET fixed == [i \in 1..Len(ps) |-> fix_string(ps[i])]
    IN  IF checkOnly
        THEN [ret |-> 1, trace |-> <<>>, params |-> ps]
        ELSE [ret |-> None,
              trace |-> <<Ev("fix_string", <<user>>)>>
                            \o [i \in 1..Len(ps) |-> Ev("fix_string", <<ps[i]>>)]
                            \o <<slog(MyCommandText(fix_string(user),
                                                    Join(fixed, <<" ">>)), NoticeLevel)>>,
              params |-> fixed]

\* hMyCommand: its return value, what it does, and the params list afterwards
\* (the list is modified in place).
hMyCommand(source, user, ps, checkOnly) ==
    LET fixed == [i \in 1..Len(ps) |-> fix_string(ps[i])]
    IN  IF checkOnly
        THEN [ret |-> 1, trace |-> <<>>, params |-> ps]
        ELSE [ret |-> None,
              trace |-> <<Ev("fix_string", <<user>>)>>
                            \o [i \in 1..Len(ps) |-> Ev("fix_string", <<ps[i]>>)]
                            \o <<slog(MyCommandText(fix_string(user),
                                                    Join(fixed, <<",">>)), NoticeLevel)>>,
              params |-> fixed]

Digits == <<"0", "1", "2", "3", "4", "5", "6", "7", "8", "9">>

\* %H, %M and %S of strftime: two digits, zero padded.
TwoDigits(n) == <<Digits[(n \div 10) + 1], Digits[(n % 10) + 1]>>

\* current_time.strftime("%H:%M:%S")
strftime(now) == TwoDigits(now.h) \o <<":">> \o TwoDigits(now.m) \o <<":">> \o TwoDigits(now.s)

\* hSpadsTime; now is the value datetime.datetime.now() returns during the call.
hSpadsTime(source, user, ps, checkOnly, now) ==
    IF checkOnly
    THEN [ret |-> 1, trace |-> <<>>, params |-> ps]
    ELSE [ret |-> None,
          trace |-> <<Ev("datetime.now", <<>>),
                      Ev("answer", <<<<"Current local time: ">> \o strftime(now)>>)>>,
          params |-> ps]

(***************************************************************************)
(* Inputs of the command handlers.                                         *)
(***************************************************************************)
RECURSIVE SeqsUpTo(_, _)
\* The sequences over S of length at most n.
SeqsUpTo(S, n) ==
    IF n = 0 THEN {<<>>}
    ELSE LET shorter == SeqsUpTo(S, n - 1)
         IN  shorter \cup {Append(q, x) : q \in shorter, x \in S}

Sources == {"pv", "battle"}
Encodings == {"bytes", "str"}
CommandUsers == {[enc |-> e, chars |-> Bob] : e \in Encodings}
ParamStrings == {Bytes(<<"a">>), Bytes(<<"b">>), Str(<<"a">>)}
ParamLists == SeqsUpTo(ParamStrings, MaxParams)
Times == [h : {9, 23}, m : {5}, s : {0, 30}]

CommandArgs(source, user, ps, checkOnly) ==
    [source |-> source, user |-> user, params |-> ps, checkOnly |-> checkOnly]

\* The host dispatches !myCommand (or a vote check of it) to its handler.
CallMyCommand ==
    /\ Entry("MyNewCommandPlugin", "myCommand", "hMyCommand") \in spadsCommandHandlers
    /\ \E source \in Sources, user \in CommandUsers, ps \in ParamLists,
          checkOnly \in BOOLEAN :
          LET r == hMyCommand(source, user, ps, checkOnly)
          IN  /\ call' = Callback("hMyCommand", "MyNewCommandPlugin",
                                  CommandArgs(source, user, ps, checkOnly))
              /\ trace' = r.trace
              /\ ret' = r.ret
              /\ params' = r.params
    /\ UNCHANGED <<lobbyState, loaded, spadsCommandHandlers, lobbyCommandHandlers,
                   cycles, preDisconnect, conf, inbox>>

\* The host dispatches !time (or a vote check of it) to its handler.
CallSpadsTime ==
    /\ Entry("TimePlugin", "time", "hSpadsTime") \in spadsCommandHandlers
    /\ \E source \in Sources, user \in CommandUsers, ps \in ParamLists,
          checkOnly \in BOOLEAN, now \in Times :
          LET r == hSpadsTime(source, user, ps, checkOnly, now)
          IN  /\ call' = Callback("hSpadsTime", "TimePlugin",
                                  CommandArgs(source, user, ps, checkOnly))
              /\ trace' = r.trace
              /\ ret' = r.ret
              /\ params' = r.params
    /\ UNCHANGED <<lobbyState, loaded, spadsCommandHandlers, lobbyCommandHandlers,
                   cycles, preDisconnect, conf, inbox>>

CommandPlugins == {"MyNewCommandPlugin", "TimePlugin"}

NextCmd ==
    \/ \E p \in CommandPlugins : Load(p)
    \/ \E p \in CommandPlugins : Unload(p)
    \/ CallMyCommand
    \/ CallSpadsTime

SpecCmd == Init /\ [][NextCmd]_vars

(***************************************************************************)
(* Command handler properties (checked under SpecCmd).                     *)
(***************************************************************************)
IsCommandCall == call.op \in {"hMyCommand", "hSpadsTime"}

ReplyFns == {"answer", "sayPrivate", "sayBattle"}

Contains(text, sub) ==
    \E i \in 0..(Len(text) - Len(sub)) : SubSeq(text, i + 1, i + Len(sub)) = sub

Count(t, fns) == Cardinality({i \in 1..Len(t) : t[i].fn \in fns})

\* C2: a call of hMyCommand or hSpadsTime with checkOnly true returns 1, makes
\* no host call of any kind and leaves the params list as it was.
C2_CheckOnlyHasNoEffect ==
    (IsCommandCall /\ call.args.checkOnly) =>
        /\ ret = 1
        /\ trace = <<>>
        /\ params = call.args.params

\* C2 witness: a vote check of myCommand whose parameters arrived as byte
\* strings, which a real call would have rewritten.
C2_Witness ==
    /\ call.op = "hMyCommand"
    /\ call.args.checkOnly
    /\ Len(call.args.params) = 2
    /\ \A i \in 1..2 : call.args.params[i].enc = "bytes"
    /\ ret = 1

\* C8 as stated: a real call of a command handler sends a reply to the caller,
\* and the reply of hMyCommand contains the joined parameters.
C8_Original ==
    (IsCommandCall /\ ~call.args.checkOnly) =>
        \E i \in 1..Len(trace) :
            /\ trace[i].fn \in ReplyFns
            /\ call.op = "hMyCommand" =>
                  Contains(trace[i].args[1], Join(call.args.params, <<",">>))

\* C8 amended: a real call of hSpadsTime sends exactly one reply, through
\* answer; a real call of hMyCommand sends no reply at all: it writes exactly
\* one log entry, at level 3, whose text contains the parameters joined with
\* commas ("a,b" for ["a","b"]).
C8_Amended ==
    (IsCommandCall /\ ~call.args.checkOnly) =>
        /\ call.op = "hSpadsTime" =>
              /\ Count(trace, ReplyFns) = 1
              /\ Count(trace, {"answer"}) = 1
              /\ Count(trace, {"slog", "queueLobbyCommand"}) = 0
        /\ call.op = "hMyCommand" =>
              /\ Count(trace, ReplyFns) = 0
              /\ Count(trace, {"slog"}) = 1
              /\ \A i \in 1..Len(trace) : trace[i].fn = "slog" =>
                    /\ trace[i].args[2] = NoticeLevel
                    /\ Contains(trace[i].args[1], Join(call.args.params, <<",">>))
                    /\ [k \in 1..Len(call.args.params) |-> call.args.params[k].chars]
                           = <<<<"a">>, <<"b">>>>
                       => Contains(trace[i].args[1], <<"a", ",", "b">>)

\* C8 witness: a real call of hMyCommand with the parameters ["a","b"].
C8_Witness ==
    /\ call.op = "hMyCommand"
    /\ ~call.args.checkOnly
    /\ [k \in 1..Len(call.args.params) |-> call.args.params[k].chars] = <<<<"a">>, <<"b">>>>
    /\ \E i \in 1..Len(trace) :
          trace[i].fn = "slog" /\ Contains(trace[i].args[1], <<"a", ",", "b">>)

(***************************************************************************)
(* The SAIDBATTLE handler of ForbiddenWords.                               *)
(***************************************************************************)
NonWordChars == {" ", "(", ")", "!", ";", ",", ".", ":"}

\* \w of a Python regular expression, on the characters the model uses.
IsWordChar(c) == c \notin NonWordChars

\* Case folding of re.IGNORECASE, on the characters the model uses.
Lower(c) ==
    CASE c = "A" -> "a"
      [] c = "B" -> "b"
      [] c = "F" -> "f"
      [] c = "O" -> "o"
      [] c = "K" -> "k"
      [] OTHER -> c

\* \b at offset p of text (between text[p] and text[p+1]).
Boundary(text, p) ==
    (p >= 1 /\ IsWordChar(text[p])) # (p < Len(text) /\ IsWordChar(text[p + 1]))

\* re.search(r'\b' + re.escape(word) + r'\b', text, re.IGNORECASE) finds a match.
re_search(word, text) ==
    \E p \in 0..(Len(text) - Len(word)) :
        /\ Boundary(text, p)
        /\ \A k \in 1..Len(word) : Lower(text[p + k]) = Lower(word[k])
        /\ Boundary(text, p + Len(word))

RECURSIVE Split(_, _)
\* Python s.split(sep) for a one-character separator.
Split(s, sep) ==
    IF \A i \in 1..Len(s) : s[i] # sep
    THEN <<s>>
    ELSE LET i == CHOOSE j \in 1..Len(s) :
                      s[j] = sep /\ \A k \in 1..(j - 1) : s[k] # sep
         IN  <<SubSeq(s, 1, i - 1)>> \o Split(SubSeq(s, i + 1, Len(s)), sep)

DigitValue(c) == CHOOSE d \in 0..9 : Digits[d + 1] = c

RECURSIVE PyInt(_)
\* Python int() of a string of decimal digits.
PyInt(s) ==
    IF Len(s) = 0 THEN 0
    ELSE 10 * PyInt(SubSeq(s, 1, Len(s) - 1)) + DigitValue(s[Len(s)])

\* "Kicking %s from battle (watch your language!)" % user
KickNotice(user) ==
    <<"K", "i", "c", "k", "i", "n", "g", " ">> \o user.chars
        \o <<" ", "f", "r", "o", "m", " ", "b", "a", "t", "t", "l", "e", " ",
              "(", "w", "a", "t", "c", "h", " ", "y", "o", "u", "r", " ",
              "l", "a", "n", "g", "u", "a", "g", "e", "!", ")">>

RECURSIVE ScanWords(_, _, _)
\* The loop of lines 107-117 over the forbidden words left to test.
ScanWords(forbiddenWords, user, message) ==
    IF forbiddenWords = <<>> THEN <<>>
    ELSE <<Ev("re.search", <<Head(forbiddenWords), message.chars>>)>>
         \o (IF re_search(Head(forbiddenWords), message.chars)
             THEN <<Ev("sayBattle", <<KickNotice(user)>>),
                    Ev("queueLobbyCommand", <<<<"KICKFROMBATTLE", user>>>>)>>
             ELSE ScanWords(Tail(forbiddenWords), user, message))

\* Lines 93-94: the configuration of SPADS is fetched and lobbyLogin read.
SelfCheckTrace(user, message) ==
    <<Ev("fix_string", <<user, message>>), Ev("getSpadsConf", <<>>),
      Ev("spadsConf[]", <<"lobbyLogin">>)>>

\* Lines 99-100: the plugin configuration is fetched, the access level of the
\* user is asked for and immuneLevel read.
ImmuneCheckTrace(u) ==
    <<Ev("getPluginConf", <<>>), Ev("getUserAccessLevel", <<u>>),
      Ev("pluginConf[]", <<"immuneLevel">>)>>

\* Lines 104-117: the words setting is read and split, and the words tested.
WordsTrace(u, m, host) ==
    <<Ev("pluginConf[]", <<"words">>)>> \o ScanWords(Split(host.words.chars, ";"), u, m)

\* Mutant: the strings received from Perl are used as they are.
hLobbySaidBattle_NoFix(command, user, message, host) ==
    IF PyEq(user, host.lobbyLogin)
    THEN SelfCheckTrace(user, message)
    ELSE IF PyInt(host.accessLevel[user.chars].chars) >= PyInt(host.immuneLevel.chars)
    THEN SelfCheckTrace(user, message) \o ImmuneCheckTrace(user)
    ELSE SelfCheckTrace(user, message) \o ImmuneCheckTrace(user)
             \o WordsTrace(user, message, host)

\* Mutant: a user whose level equals immuneLevel is not immune.
hLobbySaidBattle_StrictlyAbove(command, user, message, host) ==
    LET u == fix_string(user)
        m == fix_string(message)
    IN  IF PyEq(u, host.lobbyLogin)
        THEN SelfCheckTrace(user, message)
        ELSE IF PyInt(host.accessLevel[u.chars].chars) > PyInt(host.immuneLevel.chars)
        THEN SelfCheckTrace(user, message) \o ImmuneCheckTrace(u)
        ELSE SelfCheckTrace(user, message) \o ImmuneCheckTrace(u) \o WordsTrace(u, m, host)

\* hLobbySaidBattle: what it does, in order (it returns None on every path).
\* host holds what the API returns during the call: the lobbyLogin of
\* getSpadsConf(), the words and immuneLevel of getPluginConf(), and the result
\* of getUserAccessLevel for each user.
hLobbySaidBattle(command, user, message, host) ==
    LET u == fix_string(user)
        m == fix_string(message)
    IN  IF PyEq(u, host.lobbyLogin)
        THEN SelfCheckTrace(user, message)
        ELSE IF PyInt(host.accessLevel[u.chars].chars) >= PyInt(host.immuneLevel.chars)
        THEN SelfCheckTrace(user, message) \o ImmuneCheckTrace(u)
        ELSE SelfCheckTrace(user, message) \o ImmuneCheckTrace(u) \o WordsTrace(u, m, host)

(***************************************************************************)
(* Inputs of the SAIDBATTLE handler and its specification.                 *)
(***************************************************************************)
MsgAlphabet == {"a", "b", "A", " "}

ExampleMessages ==
    {Bob,
     <<"f", "o", "o", "b", "a", "r">>,
     <<"s", "e", "e", " ", "f", "o", "o", " ", "h", "e", "r", "e">>,
     <<"s", "e", "e", " ", "f", "o", "o", " ", "b", "a", "r">>,
     <<"s", "e", "e", " ", "F", "O", "O">>}

Messages == SeqsUpTo(MsgAlphabet, MaxMsgLen) \cup ExampleMessages

WordsSettings ==
    {<<>>,
     <<"a">>,
     <<"a", ";", "b">>,
     <<"b", ";", "a">>,
     <<"a", ";">>,
     <<";">>,
     <<"a", "b">>,
     <<"A">>,
     <<"b", "o", "b">>,
     <<"f", "o", "o", ";", "b", "a", "r">>,
     <<"b", "a", "r", ";", "f", "o", "o">>}

AccessLevels == {<<"9">>, <<"1", "0">>, <<"1", "0", "0">>}
ImmuneLevels == {<<"1", "0">>, <<"1", "0", "0">>}

Confs ==
    {[lobbyLogin |-> Str(HostLogin),
      words |-> Str(w),
      immuneLevel |-> Str(t),
      accessLevel |-> [u \in UserNames |-> Str(l[u])]] :
        w \in WordsSettings, t \in ImmuneLevels, l \in [UserNames -> AccessLevels]}

SaidBattle(user, message) ==
    [command |-> "SAIDBATTLE", user |-> user, message |-> message]

\* The lobby commands a user may send: the bridge hands over all the strings of
\* one command the same way.
SaidBattleEvents ==
    {SaidBattle([enc |-> e, chars |-> u], [enc |-> e, chars |-> m]) :
        e \in Encodings, u \in UserNames, m \in Messages}

\* The host is synchronized, holds some configuration and has received one
\* SAIDBATTLE command; the plugin is not loaded yet.
InitMod ==
    /\ lobbyState = LOBBY_STATE_SYNCHRONIZED
    /\ loaded = {}
    /\ spadsCommandHandlers = {}
    /\ lobbyCommandHandlers = {}
    /\ cycles = 0
    /\ preDisconnect = {}
    /\ call = Callback("none", "host", <<>>)
    /\ trace = <<>>
    /\ ret = None
    /\ params = <<>>
    /\ conf \in Confs
    /\ inbox \in {<<e>> : e \in SaidBattleEvents}

\* The host dispatches the next SAIDBATTLE command to the registered handler.
HostSaidBattle ==
    /\ inbox # <<>>
    /\ Entry("ForbiddenWords", "SAIDBATTLE", "hLobbySaidBattle") \in lobbyCommandHandlers
    /\ LET e == Head(inbox)
       IN  /\ call' = Callback("hLobbySaidBattle", "ForbiddenWords", e)
           /\ trace' = hLobbySaidBattle(e.command, e.user, e.message, conf)
    /\ inbox' = Tail(inbox)
    /\ ret' = None
    /\ UNCHANGED <<lobbyState, loaded, spadsCommandHandlers, lobbyCommandHandlers,
                   cycles, preDisconnect, params, conf>>

\* The lobby server sends back to the battle what the autohost has just said
\* there: a SAIDBATTLE command whose user is the autohost's own account.
ServerEcho ==
    /\ inbox = <<>>
    /\ \E i \in 1..Len(trace) :
          /\ trace[i].fn = "sayBattle"
          /\ inbox' = <<SaidBattle([enc |-> call.args.user.enc, chars |-> conf.lobbyLogin.chars],
                                   [enc |-> call.args.user.enc, chars |-> trace[i].args[1]])>>
    /\ call' = Callback("none", "host", <<>>)
    /\ trace' = <<>>
    /\ ret' = None
    /\ UNCHANGED <<lobbyState, loaded, spadsCommandHandlers, lobbyCommandHandlers,
                   cycles, preDisconnect, params, conf>>

NextMod ==
    \/ Load("ForbiddenWords")
    \/ HostSaidBattle
    \/ ServerEcho

SpecMod == InitMod /\ [][NextMod]_vars

(***************************************************************************)
(* SAIDBATTLE handler properties (checked under SpecMod).                  *)
(***************************************************************************)
IsSaidBattleCall == call.op = "hLobbySaidBattle"

\* The speaking user is the autohost's own lobby account.
FromHost == call.args.user.chars = conf.lobbyLogin.chars

\* The access level of the speaking user is at least immuneLevel.
Immune ==
    PyInt(conf.accessLevel[call.args.user.chars].chars) >= PyInt(conf.immuneLevel.chars)

Kicks == Count(trace, {"queueLobbyCommand"})
Notices == Count(trace, {"sayBattle"})

\* The configured forbidden words: the non-empty entries of the words setting.
ConfiguredWords ==
    LET entries == Split(conf.words.chars, ";")
    IN  {entries[i] : i \in {j \in 1..Len(entries) : entries[j] # <<>>}}

\* The words of a text: its maximal runs of word characters, case folded.
WordsOf(text) ==
    {[k \in 1..(j - i + 1) |-> Lower(text[i + k - 1])] :
        <<i, j>> \in {r \in (1..Len(text)) \X (1..Len(text)) :
                        /\ r[1] <= r[2]
                        /\ \A k \in r[1]..r[2] : IsWordChar(text[k])
                        /\ r[1] = 1 \/ ~IsWordChar(text[r[1] - 1])
                        /\ r[2] = Len(text) \/ ~IsWordChar(text[r[2] + 1])}}

\* Some configured forbidden word is one of the words of the message.
ForbiddenWordSaid ==
    \E w \in ConfiguredWords :
        [k \in 1..Len(w) |-> Lower(w[k])] \in WordsOf(call.args.message.chars)

\* C3: when the access level of the speaking user is at least immuneLevel, the
\* handler does not read the words setting, tests the message against no word
\* and calls neither sayBattle nor queueLobbyCommand.
C3_ImmuneUserIsNotInspected ==
    (IsSaidBattleCall /\ Immune) =>
        /\ \A i \in 1..Len(trace) :
              /\ trace[i].fn # "re.search"
              /\ trace[i] # Ev("pluginConf[]", <<"words">>)
        /\ Kicks = 0
        /\ Notices = 0

\* C3 witness: a user whose level equals immuneLevel says a forbidden word.
C3_Witness ==
    /\ IsSaidBattleCall
    /\ ~FromHost
    /\ PyInt(conf.accessLevel[call.args.user.chars].chars) = PyInt(conf.immuneLevel.chars)
    /\ ForbiddenWordSaid
    /\ Kicks = 0

\* C4 as stated: for a user who is neither immune nor the autohost, a kick is
\* queued if and only if some configured forbidden word occurs in the message
\* as a whole word, case-insensitively, and then exactly one kick is queued and
\* exactly one notice sent.
C4_Original ==
    (IsSaidBattleCall /\ ~FromHost /\ ~Immune) =>
        IF ForbiddenWordSaid
        THEN Kicks = 1 /\ Notices = 1
        ELSE Kicks = 0 /\ Notices = 0

\* C7 as stated: for a user who is neither immune nor the autohost, the handler
\* says nothing and queues nothing when no word is configured or when no
\* configured word matches the message.
C7_Original ==
    (IsSaidBattleCall /\ ~FromHost /\ ~Immune /\ ~ForbiddenWordSaid) =>
        Kicks = 0 /\ Notices = 0

\* C10: a message of the autohost's own lobby account is never acted on: the
\* handler returns before asking for the access level and calls neither
\* sayBattle nor queueLobbyCommand, whatever the message and the settings.
C10_OwnMessagesAreIgnored ==
    (IsSaidBattleCall /\ FromHost) =>
        /\ "getUserAccessLevel" \notin Fns(trace)
        /\ Kicks = 0
        /\ Notices = 0

\* C10 witness: the kick notice for bob comes back from the lobby server while
\* "bob" is a forbidden word and the autohost's own level is below immuneLevel.
C10_Witness ==
    /\ IsSaidBattleCall
    /\ FromHost
    /\ ~Immune
    /\ call.args.message.chars = KickNotice(Str(Bob))
    /\ ForbiddenWordSaid
    /\ Kicks = 0

====
